---- MODULE Spec2Model ----
(***************************************************************************)
(* A model of ShivyC's AST nodes (ast.py): node construction with its      *)
(* symbol/kind checks, and the recursive make_code walk that folds         *)
(* constant expressions and appends commands to a code store.              *)
(*                                                                         *)
(* Python strings are sequences of one-character strings, so that int()    *)
(* and str() are computed digit by digit.  The walk is an explicit call    *)
(* stack: one frame per active make_code call, one action per statement    *)
(* of the method bodies.                                                   *)
(***************************************************************************)
EXTENDS Integers, Sequences, FiniteSets, TLC

\* Bounds of the enumerated inputs: the operators of an expression of
\* numbers, plus and star; the operators of an expression of any leaves and
\* operator tokens; the statements of a main function.
MaxFoldOps == 3
MaxOps == 2
MaxStatements == 2

---------------------------------------------------------------------------
\* Python strings and the int()/str() builtins

Digits == <<"0", "1", "2", "3", "4", "5", "6", "7", "8", "9">>

DigitValue(c) == (CHOOSE i \in 1..10 : Digits[i] = c) - 1

\* int(s) for a string of one or more digits, as number tokens hold.
RECURSIVE int(_)
int(s) ==
    IF Len(s) = 0 THEN 0
    ELSE int(SubSeq(s, 1, Len(s) - 1)) * 10 + DigitValue(s[Len(s)])

RECURSIVE str(_)
str(n) ==
    IF n < 0 THEN <<"-">> \o str(0 - n)
    ELSE IF n < 10 THEN <<Digits[n + 1]>>
    ELSE str(n \div 10) \o <<Digits[(n % 10) + 1]>>

\* The string constants of ast.py.
main == <<"m", "a", "i", "n">>
push == <<"p", "u", "s", "h">>
mov == <<"m", "o", "v">>
pop == <<"p", "o", "p">>
ret == <<"r", "e", "t">>
rax == <<"r", "a", "x">>
rbp == <<"r", "b", "p">>
rsp == <<"r", "s", "p">>
zero == <<"0">>

---------------------------------------------------------------------------
\* Collaborators of ast.py: tokens, value descriptors, the code store

\* Token(kind, content); content defaults to DefaultContent.
DefaultContent == <<>>

Token(kind, content) == [kind |-> kind, content |-> content]

TokenOfKind(kind) == Token(kind, DefaultContent)

\* Token.__eq__
TokenEq(a, b) == a.kind = b.kind /\ a.content = b.content

LITERAL == "LITERAL"

\* A storage kind the emitter has no code for.
REGISTER == "REGISTER"

ValueInfo(storage_type, storage_info) ==
    [py |-> "ValueInfo", storage_type |-> storage_type,
     storage_info |-> storage_info]

None == [py |-> "None"]

\* The exception class as a first-class value.
NotImplementedErrorClass == [py |-> "type", name |-> "NotImplementedError"]

\* Whether reading value.storage_type succeeds.
HasStorageType(value) == value.py = "ValueInfo"

Label(name) == [entry |-> "label", parts |-> <<name>>]

Command(parts) == [entry |-> "command", parts |-> parts]

add_label(store, name) == Append(store, Label(name))

add_command(store, parts) == Append(store, Command(parts))

---------------------------------------------------------------------------
\* Node objects

MainNodeObj(statements) ==
    [class |-> "MainNode", symbol |-> "main_function", statements |-> statements]

ReturnNodeObj(return_value) ==
    [class |-> "ReturnNode", symbol |-> "statement", return_value |-> return_value]

NumberNodeObj(number) ==
    [class |-> "NumberNode", symbol |-> "expression", number |-> number]

BinaryOperatorNodeObj(left_expr, operator, right_expr) ==
    [class |-> "BinaryOperatorNode", symbol |-> "expression",
     left_expr |-> left_expr, operator |-> operator, right_expr |-> right_expr]

\* A test double: any object with a symbol attribute and a make_code
\* method that returns a preset value and appends nothing.  inner holds
\* nodes the double owns; no constructor of ast.py ever looks at them.
DoubleObj(symbol, returns, inner) ==
    [class |-> "Double", symbol |-> symbol, returns |-> returns, inner |-> inner]

\* Node.assert_symbol / Node.assert_kind: TRUE when the check raises.
assert_symbol(node, symbol_name) == node.symbol # symbol_name

assert_kind(token, kind) == token.kind # kind

Raised(exception) == [exc |-> exception, obj |-> None]

Built(obj) == [exc |-> "none", obj |-> obj]

MainNode_init(statements) ==
    IF \E i \in 1..Len(statements) : assert_symbol(statements[i], "statement")
    THEN Raised("ValueError")
    ELSE Built(MainNodeObj(statements))

ReturnNode_init(return_value) ==
    IF assert_symbol(return_value, "expression")
    THEN Raised("ValueError")
    ELSE Built(ReturnNodeObj(return_value))

NumberNode_init(number) ==
    IF assert_kind(number, "number")
    THEN Raised("ValueError")
    ELSE Built(NumberNodeObj(number))

\* Mutant: the right operand is not checked.
BinaryOperatorNode_init_left_only(left_expr, operator, right_expr) ==
    IF assert_symbol(left_expr, "expression") THEN Raised("ValueError")
    ELSE Built(BinaryOperatorNodeObj(left_expr, operator, right_expr))

\* The operator is always a Token here, so the isinstance assertion passes.
BinaryOperatorNode_init(left_expr, operator, right_expr) ==
    IF assert_symbol(left_expr, "expression") THEN Raised("ValueError")
    ELSE IF assert_symbol(right_expr, "expression") THEN Raised("ValueError")
    ELSE Built(BinaryOperatorNodeObj(left_expr, operator, right_expr))

---------------------------------------------------------------------------
\* BinaryOperatorNode.add / multiply: [exc, value]

Returned(value) == [exc |-> "none", value |-> value]

Threw(exception) == [exc |-> exception, value |-> None]

\* "a.storage_type == LITERAL and b.storage_type == LITERAL", with the
\* attribute errors and the short circuit of "and".
BothLiteral(left_value, right_value) ==
    IF ~HasStorageType(left_value) THEN "AttributeError"
    ELSE IF left_value.storage_type # LITERAL THEN "False"
    ELSE IF ~HasStorageType(right_value) THEN "AttributeError"
    ELSE IF right_value.storage_type # LITERAL THEN "False"
    ELSE "True"

add(left_value, right_value) ==
    LET test == BothLiteral(left_value, right_value) IN
    IF test = "AttributeError" THEN Threw("AttributeError")
    ELSE IF test = "True"
    THEN Returned(ValueInfo(LITERAL, str(int(left_value.storage_info) +
                                         int(right_value.storage_info))))
    ELSE Threw("NotImplementedError")

\* Mutant: multiply is a copy of add.
multiply_as_add(left_value, right_value) == add(left_value, right_value)

multiply(left_value, right_value) ==
    LET test == BothLiteral(left_value, right_value) IN
    IF test = "AttributeError" THEN Threw("AttributeError")
    ELSE IF test = "True"
    THEN Returned(ValueInfo(LITERAL, str(int(left_value.storage_info) *
                                         int(right_value.storage_info))))
    ELSE Returned(NotImplementedErrorClass)

\* Mutant: any operator that is not plus multiplies.
BinaryOperatorNode_dispatch_no_else(operator, left_value, right_value) ==
    IF TokenEq(operator, TokenOfKind("plus")) THEN add(left_value, right_value)
    ELSE multiply(left_value, right_value)

\* BinaryOperatorNode.make_code, lines 152-157: the dispatch on the operator.
BinaryOperatorNode_dispatch(operator, left_value, right_value) ==
    IF TokenEq(operator, TokenOfKind("plus")) THEN add(left_value, right_value)
    ELSE IF TokenEq(operator, TokenOfKind("star"))
    THEN multiply(left_value, right_value)
    ELSE Threw("NotImplementedError")

---------------------------------------------------------------------------
\* The inputs: tokens, expression trees, statements

NumberTokens == {Token("number", <<"2">>), Token("number", <<"0", "3">>)}

FoldOperators == {TokenOfKind("plus"), TokenOfKind("star")}

OperatorTokens ==
    FoldOperators \cup {Token("plus", <<"+">>), TokenOfKind("minus")}

Two == NumberNodeObj(Token("number", <<"2">>))

Three == NumberNodeObj(Token("number", <<"0", "3">>))

NumberLeaves == {Two, Three}

\* An expression whose value lives in a register.
RegisterDouble == DoubleObj("expression", ValueInfo(REGISTER, rax), <<>>)

Leaves == {Three, RegisterDouble}

\* The expression trees with exactly k operators.
RECURSIVE Trees(_, _, _)
Trees(k, leaves, operators) ==
    IF k = 0 THEN leaves
    ELSE UNION {
        {BinaryOperatorNodeObj(l, op, r) :
            l \in Trees(kl, leaves, operators), op \in operators,
            r \in Trees(k - 1 - kl, leaves, operators)} : kl \in 0..(k - 1)}

\* Expressions of any leaves and any operator tokens.
Exprs == UNION {Trees(k, Leaves, OperatorTokens) : k \in 0..MaxOps}

\* Doubles that own nodes no grammar rule puts there.
DeepExpression ==
    DoubleObj("expression", ValueInfo(LITERAL, <<"7">>), <<ReturnNodeObj(Two)>>)

DeepStatement == DoubleObj("statement", None, <<MainNodeObj(<<>>)>>)

\* Nodes offered where an expression is expected.
OddOperands == {ReturnNodeObj(Two), MainNodeObj(<<>>), DeepStatement, DeepExpression}

\* The operand triples of the trees with at most n operators.
Operands(n, leaves, operators) ==
    UNION {{<<l, op, r>> : l \in Trees(k[1], leaves, operators), op \in operators,
                           r \in Trees(k[2], leaves, operators)} :
           k \in {c \in (0..n) \X (0..n) : c[1] + c[2] + 1 <= n}}

\* The operand triples of the sums and products of numbers up to MaxFoldOps
\* operators and of Exprs, and the odd ones.
BinaryInputs ==
    Operands(MaxFoldOps, NumberLeaves, FoldOperators)
    \cup Operands(MaxOps, Leaves, OperatorTokens)
    \cup {<<l, op, r>> : l \in Leaves \cup OddOperands, op \in OperatorTokens,
                         r \in Leaves \cup OddOperands}

ReturnInputs == Exprs \cup {Two} \cup OddOperands

StatementPool ==
    {ReturnNodeObj(Two),
     ReturnNodeObj(BinaryOperatorNodeObj(Three, TokenOfKind("plus"), Two)),
     ReturnNodeObj(RegisterDouble),
     ReturnNodeObj(BinaryOperatorNodeObj(Two, TokenOfKind("minus"), Three)),
     ReturnNodeObj(BinaryOperatorNodeObj(RegisterDouble, TokenOfKind("star"), Two)),
     DeepStatement,
     Two}

MainInputs == UNION {[1..n -> StatementPool] : n \in 0..MaxStatements}

\* CodeStore(): the code store make_code is called with.
FreshStore == <<>>

---------------------------------------------------------------------------
\* State

VARIABLES
    phase,      \* "build", "built", "emit", "done" or "failed"
    ctor,       \* the constructor call made: class, args, exc, obj
    code_store, \* the labels and commands added so far
    stack,      \* the active make_code calls, innermost last
    result,     \* what the outermost make_code returned
    exc,        \* the exception that ended the walk, or "none"
    log         \* history: the calls, returns and raises of the walk

vars == <<phase, ctor, code_store, stack, result, exc, log>>

root == ctor.obj

Init ==
    /\ phase = "build"
    /\ ctor = [class |-> "none", args |-> <<>>, exc |-> "none", obj |-> None]
    /\ code_store = <<>>
    /\ stack = <<>>
    /\ result = None
    /\ exc = "none"
    /\ log = <<>>

\* The node a path of child selectors leads to from the root.
Child(node, selector) ==
    CASE node.class = "MainNode" -> node.statements[selector]
      [] node.class = "ReturnNode" -> node.return_value
      [] node.class = "BinaryOperatorNode" ->
            IF selector = 1 THEN node.left_expr ELSE node.right_expr

RECURSIVE Descend(_, _)
Descend(node, path) ==
    IF path = <<>> THEN node ELSE Descend(Child(node, Head(path)), Tail(path))

NodeAt(path) == Descend(root, path)

\* The first statement of each make_code.
EntryPoint(node) ==
    CASE node.class = "MainNode" -> "add_label"
      [] node.class = "ReturnNode" -> "call"
      [] node.class = "BinaryOperatorNode" -> "left"
      [] OTHER -> "return"

Frame(node, path) ==
    [path |-> path, pc |-> EntryPoint(node), i |-> 1,
     value_info |-> None, left_value |-> None, right_value |-> None]

Event(ev, path, value, store) ==
    [ev |-> ev, path |-> path, value |-> value, store |-> store]

Top == stack[Len(stack)]

\* self of the running make_code call.
Self == NodeAt(Top.path)

At(class, pc) ==
    /\ phase = "emit"
    /\ Self.class = class
    /\ Top.pc = pc

\* A constructor call returns or raises.
Construct(class, args, outcome) ==
    /\ phase' = "built"
    /\ ctor' = [class |-> class, args |-> args, exc |-> outcome.exc,
                obj |-> outcome.obj]
    /\ UNCHANGED <<code_store, stack, result, exc, log>>

\* The statement at Top ran: the store is now store, control is at pc.
Goto(pc, store) ==
    /\ stack' = [stack EXCEPT ![Len(stack)].pc = pc]
    /\ code_store' = store
    /\ UNCHANGED <<phase, ctor, result, exc, log>>

\* child.make_code(code_store) is called from Top.
Calls(child, selector) ==
    /\ stack' = Append(stack, Frame(child, Top.path \o <<selector>>))
    /\ log' = Append(log, Event("call", Top.path \o <<selector>>, None, code_store))
    /\ UNCHANGED <<phase, ctor, code_store, result, exc>>

\* The caller's frame once the call it made has returned value.
Resume(caller, value) ==
    CASE caller.pc = "for" -> [caller EXCEPT !.i = @ + 1]
      [] caller.pc = "call" -> [caller EXCEPT !.value_info = value, !.pc = "if"]
      [] caller.pc = "left" -> [caller EXCEPT !.left_value = value, !.pc = "right"]
      [] caller.pc = "right" ->
            [caller EXCEPT !.right_value = value, !.pc = "operator"]

\* Top returns value, the store being store.
Returns(value, store) ==
    /\ code_store' = store
    /\ log' = Append(log, Event("return", Top.path, value, store))
    /\ IF Len(stack) = 1
       THEN /\ stack' = <<>>
            /\ result' = value
            /\ phase' = "done"
       ELSE /\ stack' = Append(SubSeq(stack, 1, Len(stack) - 2),
                               Resume(stack[Len(stack) - 1], value))
            /\ UNCHANGED <<result, phase>>
    /\ UNCHANGED <<ctor, exc>>

\* Top raises: no make_code catches, every active call ends with it.
Raises(exception) ==
    /\ stack' = <<>>
    /\ exc' = exception
    /\ phase' = "failed"
    /\ log' = Append(log, Event("raise", Top.path, None, code_store))
    /\ UNCHANGED <<ctor, code_store, result>>

---------------------------------------------------------------------------
\* Construction

NewMainNode ==
    /\ phase = "build"
    /\ \E statements \in MainInputs :
           Construct("MainNode", <<statements>>, MainNode_init(statements))

NewReturnNode ==
    /\ phase = "build"
    /\ \E return_value \in ReturnInputs :
           Construct("ReturnNode", <<return_value>>, ReturnNode_init(return_value))

NewNumberNode ==
    /\ phase = "build"
    /\ \E number \in NumberTokens \cup OperatorTokens :
           Construct("NumberNode", <<number>>, NumberNode_init(number))

NewBinaryOperatorNode ==
    /\ phase = "build"
    /\ \E a \in BinaryInputs :
           Construct("BinaryOperatorNode", a,
                     BinaryOperatorNode_init(a[1], a[2], a[3]))

\* The caller of the walk: root.make_code(code_store).
MakeCode ==
    /\ phase = "built"
    /\ ctor.exc = "none"
    /\ code_store' = FreshStore
    /\ stack' = <<Frame(root, <<>>)>>
    /\ log' = <<Event("call", <<>>, None, FreshStore)>>
    /\ phase' = "emit"
    /\ UNCHANGED <<ctor, result, exc>>

---------------------------------------------------------------------------
\* MainNode.make_code

MainNode_add_label ==
    /\ At("MainNode", "add_label")
    /\ Goto("push", add_label(code_store, main))

\* Mutant: the frame pointer is set before it is saved.
MainNode_push_misplaced ==
    /\ At("MainNode", "push")
    /\ Goto("mov", add_command(code_store, <<mov, rbp, rsp>>))

MainNode_push ==
    /\ At("MainNode", "push")
    /\ Goto("mov", add_command(code_store, <<push, rbp>>))

MainNode_mov ==
    /\ At("MainNode", "mov")
    /\ Goto("for", add_command(code_store, <<mov, rbp, rsp>>))

MainNode_for ==
    /\ At("MainNode", "for")
    /\ Top.i <= Len(Self.statements)
    /\ Calls(Self.statements[Top.i], Top.i)

\* Mutant: the fallback is added only when there is no statement.
MainNode_fallback_only_if_empty ==
    /\ At("MainNode", "for")
    /\ Top.i > Len(Self.statements)
    /\ IF Self.statements = <<>>
       THEN Goto("fallback_pop", add_command(code_store, <<mov, rax, zero>>))
       ELSE Returns(None, code_store)

MainNode_fallback_mov ==
    /\ At("MainNode", "for")
    /\ Top.i > Len(Self.statements)
    /\ Goto("fallback_pop", add_command(code_store, <<mov, rax, zero>>))

MainNode_fallback_pop ==
    /\ At("MainNode", "fallback_pop")
    /\ Goto("fallback_ret", add_command(code_store, <<pop, rbp>>))

MainNode_fallback_ret ==
    /\ At("MainNode", "fallback_ret")
    /\ Returns(None, add_command(code_store, <<ret>>))

---------------------------------------------------------------------------
\* ReturnNode.make_code

ReturnNode_call ==
    /\ At("ReturnNode", "call")
    /\ Calls(Self.return_value, 1)

\* Mutant: the storage type is not looked at.
ReturnNode_mov_unchecked ==
    /\ At("ReturnNode", "if")
    /\ HasStorageType(Top.value_info)
    /\ Goto("pop", add_command(code_store, <<mov, rax, Top.value_info.storage_info>>))

ReturnNode_mov ==
    /\ At("ReturnNode", "if")
    /\ HasStorageType(Top.value_info)
    /\ Top.value_info.storage_type = LITERAL
    /\ Goto("pop", add_command(code_store, <<mov, rax, Top.value_info.storage_info>>))

ReturnNode_raise ==
    /\ At("ReturnNode", "if")
    /\ IF ~HasStorageType(Top.value_info) THEN Raises("AttributeError")
       ELSE /\ Top.value_info.storage_type # LITERAL
            /\ Raises("NotImplementedError")

\* Mutant: the frame pointer is not restored.
ReturnNode_pop_forgotten ==
    /\ At("ReturnNode", "pop")
    /\ Goto("ret", code_store)

ReturnNode_pop ==
    /\ At("ReturnNode", "pop")
    /\ Goto("ret", add_command(code_store, <<pop, rbp>>))

ReturnNode_ret ==
    /\ At("ReturnNode", "ret")
    /\ Returns(None, add_command(code_store, <<ret>>))

---------------------------------------------------------------------------
\* NumberNode.make_code, BinaryOperatorNode.make_code, the doubles

NumberNode_make_code ==
    /\ At("NumberNode", "return")
    /\ Returns(ValueInfo(LITERAL, Self.number.content), code_store)

\* Mutant: the first call is made on the right operand.
BinaryOperatorNode_left_calls_right ==
    /\ At("BinaryOperatorNode", "left")
    /\ Calls(Self.right_expr, 2)

BinaryOperatorNode_left ==
    /\ At("BinaryOperatorNode", "left")
    /\ Calls(Self.left_expr, 1)

BinaryOperatorNode_right ==
    /\ At("BinaryOperatorNode", "right")
    /\ Calls(Self.right_expr, 2)

BinaryOperatorNode_operator ==
    /\ At("BinaryOperatorNode", "operator")
    /\ LET outcome == BinaryOperatorNode_dispatch(Self.operator,
                                                  Top.left_value, Top.right_value)
       IN IF outcome.exc = "none"
          THEN Returns(outcome.value, code_store)
          ELSE Raises(outcome.exc)

Double_make_code ==
    /\ At("Double", "return")
    /\ Returns(Self.returns, code_store)

Next ==
    \/ NewMainNode
    \/ NewReturnNode
    \/ NewNumberNode
    \/ NewBinaryOperatorNode
    \/ MakeCode
    \/ MainNode_add_label
    \/ MainNode_push
    \/ MainNode_mov
    \/ MainNode_for
    \/ MainNode_fallback_mov
    \/ MainNode_fallback_pop
    \/ MainNode_fallback_ret
    \/ ReturnNode_call
    \/ ReturnNode_mov
    \/ ReturnNode_raise
    \/ ReturnNode_pop
    \/ ReturnNode_ret
    \/ NumberNode_make_code
    \/ BinaryOperatorNode_left
    \/ BinaryOperatorNode_right
    \/ BinaryOperatorNode_operator
    \/ Double_make_code

Spec == Init /\ [][Next]_vars

---------------------------------------------------------------------------
\* Reading the history of a walk

IsPrefix(s, t) == Len(s) <= Len(t) /\ SubSeq(t, 1, Len(s)) = s

Walking == phase \in {"emit", "done", "failed"}

Indexes(ev, path) == {j \in 1..Len(log) : log[j].ev = ev /\ log[j].path = path}

Has(ev, path) == Indexes(ev, path) # {}

The(ev, path) == log[CHOOSE j \in Indexes(ev, path) : TRUE]

\* The paths of the nodes of a class whose make_code was called.
Called(class) ==
    {log[j].path : j \in {k \in 1..Len(log) :
        log[k].ev = "call" /\ NodeAt(log[k].path).class = class}}

OnStack(path) == \E k \in 1..Len(stack) : stack[k].path = path

IsLiteral(value) == HasStorageType(value) /\ value.storage_type = LITERAL

NonLiteral(value) == HasStorageType(value) /\ value.storage_type # LITERAL

ReturnSequence(payload) ==
    <<Command(<<mov, rax, payload>>), Command(<<pop, rbp>>), Command(<<ret>>)>>

Prologue == <<Label(main), Command(<<push, rbp>>), Command(<<mov, rbp, rsp>>)>>

FallbackTail == ReturnSequence(zero)

\* The store make_code was called with.
Before == log[1].store

---------------------------------------------------------------------------
\* C1: whenever MainNode.make_code completes, for any statement list, the
\* last three entries of the code store are mov rax 0 / pop rbp / ret.
C1_FallbackTail ==
    (phase = "done" /\ root.class = "MainNode") =>
        /\ Len(code_store) >= 3
        /\ SubSeq(code_store, Len(code_store) - 2, Len(code_store)) = FallbackTail

\* A main function of two return statements was emitted to the end.
C1_Witness ==
    /\ phase = "done"
    /\ root.class = "MainNode"
    /\ Len(root.statements) = 2
    /\ \A i \in 1..2 : root.statements[i].class = "ReturnNode"

---------------------------------------------------------------------------
\* What statement i of the main function under emission put in the store,
\* as far as the history tells: a return statement whose expression
\* returned a literal puts its return sequence, a double puts nothing.
Emitted(i) ==
    IF /\ NodeAt(<<i>>).class = "ReturnNode"
       /\ Has("return", <<i, 1>>)
       /\ IsLiteral(The("return", <<i, 1>>).value)
    THEN ReturnSequence(The("return", <<i, 1>>).value.storage_info)
    ELSE <<>>

\* The entries expected from statement i on: a statement that has not
\* returned yet ends the expectation, the tail follows the last statement.
RECURSIVE Expect(_)
Expect(i) ==
    IF i > Len(root.statements) THEN FallbackTail
    ELSE Emitted(i) \o (IF Has("return", <<i>>) THEN Expect(i + 1) ELSE <<>>)

C2_Order ==
    (Walking /\ root.class = "MainNode") =>
        /\ IsPrefix(code_store, Before \o Prologue \o Expect(1))
        /\ phase = "done" => code_store = Before \o Prologue \o Expect(1)
        /\ \A i \in 1..Len(root.statements) :
            /\ Has("call", <<i>>) =>
                 The("call", <<i>>).store =
                    IF i = 1 THEN Before \o Prologue
                    ELSE The("return", <<i - 1>>).store
            /\ Has("return", <<i>>) =>
                 The("return", <<i>>).store = The("call", <<i>>).store \o Emitted(i)

\* C2: MainNode.make_code puts in the store, in this order, the label main,
\* push rbp, mov rbp rsp, the entries of each statement in list order, and
\* only then the fallback tail; no step changes or removes an entry that is
\* already there.
C2_OrderedAppendOnly ==
    /\ []C2_Order
    /\ [][IsPrefix(code_store, code_store')]_vars

\* Two return statements of different values were emitted, then the tail.
C2_Witness ==
    /\ phase = "done"
    /\ root.class = "MainNode"
    /\ Len(root.statements) = 2
    /\ Emitted(1) # <<>>
    /\ Emitted(2) # <<>>
    /\ Emitted(1) # Emitted(2)

---------------------------------------------------------------------------
\* C3: when the expression of a ReturnNode returns a literal descriptor of
\* payload v, ReturnNode.make_code does not raise, the expression's
\* emission leaves the store as it was, and on return the store is the
\* store at the call followed by exactly mov rax v / pop rbp / ret, and the
\* value returned is None.
C3_ReturnLiteral ==
    Walking =>
        \A p \in Called("ReturnNode") :
            (Has("return", p \o <<1>>) /\ IsLiteral(The("return", p \o <<1>>).value)) =>
                LET v == The("return", p \o <<1>>).value.storage_info
                    start == The("call", p).store
                IN  /\ The("return", p \o <<1>>).store = start
                    /\ ~Has("raise", p)
                    /\ IsPrefix(start, code_store)
                    /\ OnStack(p) => IsPrefix(code_store, start \o ReturnSequence(v))
                    /\ ~OnStack(p) => Has("return", p)
                    /\ Has("return", p) =>
                        /\ The("return", p).store = start \o ReturnSequence(v)
                        /\ The("return", p).value = None

\* A return of a folded two-operator expression was emitted.
C3_Witness ==
    /\ phase = "done"
    /\ root.class = "ReturnNode"
    /\ root.return_value.class = "BinaryOperatorNode"
    /\ root.return_value.left_expr.class = "BinaryOperatorNode"
    /\ code_store = Before \o ReturnSequence(<<"1", "2">>)

---------------------------------------------------------------------------
\* The integer a decimal numeral stands for, read from the left.
RECURSIVE Horner(_, _)
Horner(acc, s) ==
    IF s = <<>> THEN acc ELSE Horner(acc * 10 + DigitValue(Head(s)), Tail(s))

\* s is the decimal string of n >= 0.
IsDecimalOf(s, n) ==
    /\ Len(s) >= 1
    /\ \A k \in 1..Len(s) : \E d \in 1..10 : Digits[d] = s[k]
    /\ Len(s) > 1 => s[1] # "0"
    /\ Horner(0, s) = n

\* An expression of number literals, plus and star.
RECURSIVE Folds(_)
Folds(e) ==
    \/ e.class = "NumberNode"
    \/ /\ e.class = "BinaryOperatorNode"
       /\ e.operator \in {TokenOfKind("plus"), TokenOfKind("star")}
       /\ Folds(e.left_expr)
       /\ Folds(e.right_expr)

RECURSIVE IntValue(_)
IntValue(e) ==
    IF e.class = "NumberNode" THEN Horner(0, e.number.content)
    ELSE IF e.operator.kind = "plus"
    THEN IntValue(e.left_expr) + IntValue(e.right_expr)
    ELSE IntValue(e.left_expr) * IntValue(e.right_expr)

\* The paths of the history whose node is an expression of numbers, plus and star.
FoldPaths == {q \in {log[j].path : j \in 1..Len(log)} : Folds(NodeAt(q))}

\* C4: make_code of an expression of number literals, plus and star never
\* raises and returns a literal descriptor: the token text unchanged for a
\* number alone, else the decimal string of the expression's integer value.
C4_ConstantFolding ==
    Walking =>
        /\ \A p \in FoldPaths :
            /\ ~Has("raise", p)
            /\ Has("return", p) =>
                LET value == The("return", p).value
                    e == NodeAt(p)
                IN  /\ IsLiteral(value)
                    /\ IF e.class = "NumberNode"
                       THEN value.storage_info = e.number.content
                       ELSE IsDecimalOf(value.storage_info, IntValue(e))
        /\ (phase # "emit" /\ Folds(root)) => phase = "done" /\ IsLiteral(result)

\* (a * b) + c with a two-digit value was folded.
C4_Witness ==
    /\ phase = "done"
    /\ root.class = "BinaryOperatorNode"
    /\ Folds(root)
    /\ root.operator.kind = "plus"
    /\ root.left_expr.class = "BinaryOperatorNode"
    /\ root.left_expr.operator.kind = "star"
    /\ IntValue(root) >= 10
    /\ IsDecimalOf(result.storage_info, IntValue(root))

---------------------------------------------------------------------------
\* C5: a BinaryOperatorNode one of whose operands returned a descriptor of
\* a storage kind other than LITERAL never returns a value to its caller:
\* its make_code raises NotImplementedError, for plus and star alike.
C5_NonLiteralOperandRaises ==
    Walking =>
        \A p \in Called("BinaryOperatorNode") :
            (/\ Has("return", p \o <<1>>)
             /\ Has("return", p \o <<2>>)
             /\ \/ NonLiteral(The("return", p \o <<1>>).value)
                \/ NonLiteral(The("return", p \o <<2>>).value)) =>
                /\ ~Has("return", p)
                /\ ~OnStack(p) => (Has("raise", p) /\ exc = "NotImplementedError")

---------------------------------------------------------------------------
\* Whether a direct child or token of a constructor call is out of place.
DirectMismatch ==
    CASE ctor.class = "MainNode" ->
            \E i \in 1..Len(ctor.args[1]) : ctor.args[1][i].symbol # "statement"
      [] ctor.class = "ReturnNode" -> ctor.args[1].symbol # "expression"
      [] ctor.class = "NumberNode" -> ctor.args[1].kind # "number"
      [] ctor.class = "BinaryOperatorNode" ->
            \/ ctor.args[1].symbol # "expression"
            \/ ctor.args[3].symbol # "expression"

\* The node a constructor call is to yield.
Expected ==
    CASE ctor.class = "MainNode" -> MainNodeObj(ctor.args[1])
      [] ctor.class = "ReturnNode" -> ReturnNodeObj(ctor.args[1])
      [] ctor.class = "NumberNode" -> NumberNodeObj(ctor.args[1])
      [] ctor.class = "BinaryOperatorNode" ->
            BinaryOperatorNodeObj(ctor.args[1], ctor.args[2], ctor.args[3])

\* C6: a constructor raises the malformed-tree ValueError and yields no node
\* exactly when a direct child (or the number token) is out of place; else
\* it yields the node, whatever the children themselves contain.
C6_ConstructionChecksDirectChildren ==
    phase # "build" =>
        /\ ctor.exc = "ValueError" <=> DirectMismatch
        /\ ctor.exc \in {"none", "ValueError"}
        /\ ctor.exc = "ValueError" => ctor.obj = None
        /\ ctor.exc = "none" => ctor.obj = Expected

\* A binary operator was refused for its right operand, a statement.
C6_Witness ==
    /\ phase = "built"
    /\ ctor.class = "BinaryOperatorNode"
    /\ ctor.args[1].symbol = "expression"
    /\ ctor.args[3].symbol = "statement"
    /\ ctor.exc = "ValueError"

---------------------------------------------------------------------------
\* The positions of the history that lie in the subtree at path.
Within(path) == {j \in 1..Len(log) : IsPrefix(path, log[j].path)}

\* C7: in BinaryOperatorNode.make_code every call and return of the left
\* operand's subtree precedes every call of the right operand's subtree,
\* the left subtree is finished when the right one starts, and both
\* operands have returned before the node returns or raises.
C7_LeftThenRight ==
    Walking =>
        \A p \in Called("BinaryOperatorNode") :
            LET left == Within(p \o <<1>>)
                right == Within(p \o <<2>>)
            IN  /\ \A i \in left : \A j \in right : i < j
                /\ right # {} =>
                    /\ Has("return", p \o <<1>>)
                    /\ \A i \in left :
                         log[i].ev = "call" => Has("return", log[i].path)
                /\ \A m \in Indexes("return", p) \cup Indexes("raise", p) :
                    /\ Has("return", p \o <<1>>)
                    /\ Has("return", p \o <<2>>)
                    /\ \A i \in left \cup right : i < m

\* (a + b) * (c + d) was emitted.
C7_Witness ==
    /\ phase = "done"
    /\ root.class = "BinaryOperatorNode"
    /\ root.operator = TokenOfKind("star")
    /\ root.left_expr.class = "BinaryOperatorNode"
    /\ root.left_expr.operator = TokenOfKind("plus")
    /\ root.right_expr.class = "BinaryOperatorNode"
    /\ root.right_expr.operator = TokenOfKind("plus")

---------------------------------------------------------------------------
OtherKind(token) == token.kind \notin {"plus", "star"}

\* C8: a BinaryOperatorNode whose operator token is of a kind other than
\* plus and star is constructed like any other, and its make_code, once
\* both operands have returned whatever they return, raises
\* NotImplementedError and never returns; it raises only then.
C8_OtherOperatorRaises ==
    /\ (/\ phase # "build"
        /\ ctor.class = "BinaryOperatorNode"
        /\ OtherKind(ctor.args[2])
        /\ ~DirectMismatch) => (ctor.exc = "none" /\ ctor.obj.operator = ctor.args[2])
    /\ Walking =>
        \A p \in {q \in Called("BinaryOperatorNode") : OtherKind(NodeAt(q).operator)} :
            /\ ~Has("return", p)
            /\ (Has("return", p \o <<1>>) /\ Has("return", p \o <<2>>) /\ ~OnStack(p)) =>
                    (Has("raise", p) /\ exc = "NotImplementedError")
            /\ Has("raise", p) =>
                    (Has("return", p \o <<1>>) /\ Has("return", p \o <<2>>))

\* A minus node over a register operand and a number failed.
C8_Witness ==
    /\ phase = "failed"
    /\ exc = "NotImplementedError"
    /\ root.class = "BinaryOperatorNode"
    /\ root.operator.kind = "minus"
    /\ Has("raise", <<>>)
    /\ NonLiteral(The("return", <<1>>).value)
    /\ IsLiteral(The("return", <<2>>).value)

---------------------------------------------------------------------------
\* C9: when the expression of a ReturnNode returns a descriptor of a
\* storage kind other than LITERAL, ReturnNode.make_code raises
\* NotImplementedError and the store stays what it was when the
\* ReturnNode's make_code was called.
C9_ReturnNonLiteralRaises ==
    Walking =>
        \A p \in Called("ReturnNode") :
            (Has("return", p \o <<1>>) /\ NonLiteral(The("return", p \o <<1>>).value)) =>
                /\ ~Has("return", p)
                /\ code_store = The("call", p).store
                /\ ~OnStack(p) =>
                    (phase = "failed" /\ exc = "NotImplementedError" /\ Has("raise", p))

\* The second statement of a main function returned a register value.
C9_Witness ==
    /\ phase = "failed"
    /\ exc = "NotImplementedError"
    /\ root.class = "MainNode"
    /\ Has("raise", <<2>>)
    /\ NonLiteral(The("return", <<2, 1>>).value)
    /\ code_store = Before \o Prologue \o ReturnSequence(<<"2">>)

---------------------------------------------------------------------------
\* C10: a BinaryOperatorNode whose operator token is of kind plus (star),
\* whatever the token's content, and whose operands returned literals
\* does not raise and returns the literal of their sum (product).
C10_KindAloneSelects ==
    Walking =>
        \A p \in {q \in Called("BinaryOperatorNode") : ~OtherKind(NodeAt(q).operator)} :
            (/\ Has("return", p \o <<1>>)
             /\ Has("return", p \o <<2>>)
             /\ IsLiteral(The("return", p \o <<1>>).value)
             /\ IsLiteral(The("return", p \o <<2>>).value)) =>
                LET l == Horner(0, The("return", p \o <<1>>).value.storage_info)
                    r == Horner(0, The("return", p \o <<2>>).value.storage_info)
                    n == IF NodeAt(p).operator.kind = "plus" THEN l + r ELSE l * r
                IN  /\ ~Has("raise", p)
                    /\ Has("return", p) =>
                        /\ IsLiteral(The("return", p).value)
                        /\ IsDecimalOf(The("return", p).value.storage_info, n)

====
